---- MODULE Spec2Model ----
(***************************************************************************)
(* Zazu parliament: the adjudicator (SentinelAgent) with its halt-repair   *)
(* loop and anti-paralysis monitor, the request/reply protocol of          *)
(* BaseAgent.request over Redis pub/sub, the compliance wrapper            *)
(* BaseAgent.process, the action gateway (ExecutorAgent) and the           *)
(* orchestrator (Chorus).                                                  *)
(*                                                                         *)
(* Spec         one SentinelAgent instance, calls awaited one at a time    *)
(*              (as the test-suite and init_zazu drive it).                *)
(* SpecRequest  callers running BaseAgent.request against a callee, all    *)
(*              interleavings of their awaits.                             *)
(* SpecWindow   one SentinelAgent fed threshold submissions one at a time, *)
(*              for every configured measurement window.                   *)
(* SpecConcurrent  one SentinelAgent whose calls interleave at the await of *)
(*              the halt-event INSERT.                                     *)
(* SpecProcess  BaseAgent.process calls on one agent between initialize()  *)
(*              and shutdown(), all interleavings of their awaits.         *)
(* SpecExecutor ExecutorAgent.process calls awaited one at a time.         *)
(* SpecChorus   one Chorus.process_request call, with the executor call it *)
(*              makes in execution mode.                                   *)
(* SpecLifecycle  the same with Chorus.shutdown.                           *)
(***************************************************************************)
EXTENDS Integers, Sequences, FiniteSets, TLC

VARIABLES
    \* ---- SentinelAgent (src/agents/sentinel_agent.py) ----
    max_repair_cycles,      \* self.max_repair_cycles (configuration)
    measurement_window,     \* self.measurement_window (configuration)
    current_repair_cycle,   \* self.current_repair_cycle
    recent_decisions,       \* self.recent_decisions
    halt_events,            \* rows of table halt_events, id = index
    calibration,            \* messages published on 'system:calibration'
    reflective_log,         \* log_type of every log_reflective entry
    pending,                \* _issue_halt calls suspended at the INSERT
    history,                \* one summary per returned call, in return order
    last,                   \* input, checks evaluated and output of the last returned call
    \* ---- BaseAgent.request (src/agents/base_agent.py) ----
    now,                    \* wall clock (ticks)
    req_pc,                 \* per call: position in request()
    req_id,                 \* per call: the timestamp in its request_id
    req_timeout,            \* per call: the timeout argument
    req_deadline,           \* per call: time at which asyncio.timeout fires
    req_result,             \* per call: value returned / exception raised
    subscribed,             \* per call: its pubsub is subscribed to its response channel
    inbox,                  \* per call: messages delivered to its pubsub, unread
    channel_replies,        \* per call: replies published on its response channel
                            \*   since its request was published
    callee_todo,            \* calls whose request the callee received and has not answered
    req_trace,              \* per call: its bus operations and timeouts, in order
    \* ---- BaseAgent.process (src/agents/base_agent.py) ----
    active,                 \* self.active
    episodic_memory,        \* rows of table episodic_memory, id = index
    constitutional_violations,  \* rows of table constitutional_violations
    proc_pc,                \* per call: position in process()
    proc_input,             \* per call: input_data
    proc_event_id,          \* per call: event_id returned by the first write_episodic
    proc_output,            \* per call: what _process_input returned or raised
    proc_result,            \* per call: value returned / exception raised by process()
    proc_trace,             \* per call: the steps it took, in order
    \* ---- ExecutorAgent (src/agents/executor_agent.py) ----
    ex_pc,                  \* position in ExecutorAgent.process
    ex_input,               \* input_data of the call
    ex_decision,            \* what the approval round-trip of the call gave
    ex_approval,            \* approval_response of the call (the adjudicator's dict)
    ex_result,              \* value returned / exception raised by the call
    ex_before,              \* records, history and sandbox runs when the call began
    ex_episodic,            \* event_type of the executor's episodic rows
    execution_history,      \* self.execution_history
    sandbox_calls,          \* tasks handed to _execute_sandboxed
    invocations,            \* process() calls on subsystems, in call order
    modes_seen,             \* per invocation: the callee's current_mode during the call,
                            \*   which write_episodic stores in its audit rows
    current_mode,           \* per subsystem: self.current_mode
    registry,               \* Chorus.agents: the subsystems registered
    lifecycle,              \* initialize() and shutdown() calls on the Chorus, in order
    shutdown_attempts,      \* agents whose shutdown() the last Chorus.shutdown() called
    \* ---- Chorus (src/core/chorus.py) ----
    initialized,            \* self.initialized
    ch_pc,                  \* position in process_request
    ch_request,             \* arguments of the process_request call
    ch_mode,                \* mode after auto-detection
    ch_target,              \* routing['target_subsystem'] of the interpreter
    ch_building,            \* the result dict while _route_and_execute builds it
    ch_result               \* value returned / exception raised by process_request

sentinel_vars == <<max_repair_cycles, measurement_window, current_repair_cycle, recent_decisions,
                   halt_events, calibration, reflective_log, pending, history, last>>
request_vars == <<now, req_pc, req_id, req_timeout, req_deadline, req_result,
                  subscribed, inbox, channel_replies, callee_todo, req_trace>>
process_vars == <<active, episodic_memory, constitutional_violations, proc_pc, proc_input,
                  proc_event_id, proc_output, proc_result, proc_trace>>
executor_vars == <<ex_pc, ex_input, ex_decision, ex_approval, ex_result, ex_before, ex_episodic,
                   execution_history, sandbox_calls, invocations, modes_seen>>
agent_vars == <<current_mode>>
lifecycle_vars == <<registry, lifecycle, shutdown_attempts>>
chorus_vars == <<initialized, ch_pc, ch_request, ch_mode, ch_target, ch_building, ch_result>>
parliament_vars == <<executor_vars, chorus_vars>>
vars == <<sentinel_vars, request_vars, process_vars, parliament_vars, agent_vars,
          lifecycle_vars>>
non_sentinel_vars == <<request_vars, process_vars, parliament_vars, agent_vars, lifecycle_vars>>
non_request_vars == <<sentinel_vars, process_vars, parliament_vars, agent_vars, lifecycle_vars>>
non_process_vars == <<sentinel_vars, request_vars, parliament_vars, agent_vars, lifecycle_vars>>
\* what the steps of a process_request or of an executor call leave alone
non_parliament_vars ==
    <<sentinel_vars, request_vars, process_vars, agent_vars, lifecycle_vars>>

-----------------------------------------------------------------------------
(* Bounds *)
MaxSubmissions == 3     \* adjudicator calls per behaviour
MaxTime == 2            \* clock ticks per behaviour
MaxTimeout == 1         \* largest timeout a caller passes
MaxWindowSubmissions == 11  \* adjudicator calls per behaviour of the rate monitor
MaxInFlight == 2        \* adjudicator calls suspended at one time

-----------------------------------------------------------------------------
(* Configuration (core/constitution.json, read in the constructors) *)

\* halt_repair_loop.max_repair_cycles; the test-suite runs with 3
RepairCycleConfigs == {3}

\* axioms.permissive_until_dangerous.restriction_thresholds
restriction_thresholds ==
    {"execution", "real_world_execution", "irreversible_publication", "financial_exposure"}

\* moral_regression_testing.pre_execution_checks[0].halt_conditions
coherence_halt_conditions == <<"decreases_long_arc_coherence">>

\* moral_regression_testing.pre_execution_checks[1].halt_conditions
boundary_halt_conditions ==
    <<"crosses_harm_boundary", "violates_legality", "creates_irreversible_action">>

\* moral_physics.dual_anchoring
protection_of_user_arc == <<"identity_fragmentation">>
safeguarding_external_world == <<"third_party_deception">>

\* subsystems[origin].constraints
subsystem_constraints ==
    [interpreter |-> {"cannot_generate_strategy", "cannot_execute_actions"},
     strategist  |-> {"no_execution_authority"}]

\* the constraints whose text contains 'cannot_execute'
ContainsCannotExecute(constraint) == constraint \in {"cannot_execute_actions"}

-----------------------------------------------------------------------------
(* Inputs *)
Origins == {"interpreter", "strategist"}
ActionTypes == {"execution", "speculation"}

\* substrings of json.dumps(artifact).lower() that some check looks for
Words == {"harm", "hack", "identity fragmentation"}

\* an artifact: the keywords its text contains and whether it has the
\* top-level key 'execute_command'
Artifacts == [words : SUBSET Words, execute_command : BOOLEAN]

EmptyContext == [k \in {} |-> ""]
Contexts == {EmptyContext}

ContextGet(context, key, default) ==
    IF key \in DOMAIN context THEN context[key] ELSE default

Inputs == [artifact : Artifacts, subsystem_origin : Origins,
           action_type : ActionTypes, context : Contexts]

\* the submissions that feed the rate monitor: threshold actions of one
\* origin, one artifact that passes the four checks and one that fails
WindowInputs ==
    {input \in Inputs :
        /\ input.subsystem_origin = "strategist"
        /\ input.action_type \in restriction_thresholds
        /\ ~input.artifact.execute_command
        /\ input.artifact.words \in {{}, {"hack"}}}

-----------------------------------------------------------------------------
(* Helpers *)

\* 'for x in seq: if hit(x): return ...': the index of the first hit, 0 when
\* the loop falls through; hits[i] tells whether element i is a hit
FirstIndex(hits) ==
    IF \E i \in 1..Len(hits) : hits[i]
    THEN CHOOSE i \in 1..Len(hits) : hits[i] /\ \A j \in 1..(i-1) : ~hits[j]
    ELSE 0

Passed == [passed |-> TRUE]
Failed(reason, fault_code) ==
    [passed |-> FALSE, reason |-> reason, fault_code |-> fault_code]

-----------------------------------------------------------------------------
(* SentinelAgent: the veto checks *)

\* 'kw in json.dumps(artifact).lower()'
InText(artifact, kw) == kw \in artifact.words

\* The jurisdiction gate left open: every action type is reviewed.
is_threshold_action_always(action_type) == TRUE

is_threshold_action(action_type) == action_type \in restriction_thresholds

detect_coherence_violation(artifact, halt_condition) == FALSE

violation_keywords(halt_condition) ==
    CASE halt_condition = "crosses_harm_boundary" -> {"harm", "damage", "hurt", "destroy"}
      [] halt_condition = "violates_legality" -> {"illegal", "unlawful", "fraud"}
      [] halt_condition = "creates_irreversible_action" -> {"delete", "irreversible", "permanent"}
      [] OTHER -> {}

detect_boundary_violation(artifact, halt_condition) ==
    \E kw \in violation_keywords(halt_condition) : InText(artifact, kw)

\* pattern.replace('_', ' ').lower()
PatternKeywords(pattern) ==
    CASE pattern = "identity_fragmentation" -> "identity fragmentation"
      [] pattern = "third_party_deception" -> "third party deception"
      [] OTHER -> pattern

pattern_match(artifact, pattern) == InText(artifact, PatternKeywords(pattern))

moral_regression_test(artifact, context) ==
    LET i == FirstIndex([n \in 1..Len(coherence_halt_conditions) |->
                detect_coherence_violation(artifact, coherence_halt_conditions[n])])
        j == FirstIndex([n \in 1..Len(boundary_halt_conditions) |->
                detect_boundary_violation(artifact, boundary_halt_conditions[n])])
    IN  IF i # 0
        THEN Failed(<<"Violates long-arc coherence", coherence_halt_conditions[i]>>,
                    "coherence_violation")
        ELSE IF j # 0
        THEN Failed(<<"Crosses boundary", boundary_halt_conditions[j]>>,
                    "boundary_violation")
        ELSE Passed

ethical_boundary_check(artifact, context) ==
    LET i == FirstIndex([n \in 1..Len(protection_of_user_arc) |->
                pattern_match(artifact, protection_of_user_arc[n])])
        j == FirstIndex([n \in 1..Len(safeguarding_external_world) |->
                pattern_match(artifact, safeguarding_external_world[n])])
    IN  IF i # 0
        THEN Failed(<<"Violates user arc protection", protection_of_user_arc[i]>>,
                    "user_arc_violation")
        ELSE IF j # 0
        THEN Failed(<<"Violates external safeguards", safeguarding_external_world[j]>>,
                    "external_harm")
        ELSE Passed

prohibited_keywords ==
    <<"illegal", "fraud", "laundering", "hack", "exploit", "steal",
      "insider trading", "manipulation">>

legal_constraint_check(artifact, action_type) ==
    LET i == FirstIndex([n \in 1..Len(prohibited_keywords) |->
                InText(artifact, prohibited_keywords[n])])
    IN  IF i # 0
        THEN Failed(<<"Potential legal violation detected", prohibited_keywords[i]>>,
                    "legal_violation")
        ELSE Passed

subsystem_constraint_check(artifact, subsystem_origin) ==
    IF subsystem_origin \notin DOMAIN subsystem_constraints
    THEN Passed
    ELSE IF \E c \in subsystem_constraints[subsystem_origin] :
                ContainsCannotExecute(c) /\ artifact.execute_command
         THEN Failed(<<subsystem_origin, "violated constraint",
                       CHOOSE c \in subsystem_constraints[subsystem_origin] :
                           ContainsCannotExecute(c)>>,
                     "subsystem_constraint_violation")
         ELSE Passed

\* The veto pipeline with the legal check moved before the ethical check.
VetoPipelineLegalFirst(input) ==
    LET a == input.artifact
        moral == moral_regression_test(a, input.context)
        ethical == ethical_boundary_check(a, input.context)
        legal == legal_constraint_check(a, input.action_type)
        subsystem == subsystem_constraint_check(a, input.subsystem_origin)
    IN  IF ~moral.passed
        THEN [checks |-> <<"moral_regression_test">>, result |-> moral]
        ELSE IF ~legal.passed
        THEN [checks |-> <<"moral_regression_test", "legal_constraint_check">>,
              result |-> legal]
        ELSE IF ~ethical.passed
        THEN [checks |-> <<"moral_regression_test", "legal_constraint_check",
                           "ethical_boundary_check">>,
              result |-> ethical]
        ELSE [checks |-> <<"moral_regression_test", "legal_constraint_check",
                           "ethical_boundary_check", "subsystem_constraint_check">>,
              result |-> subsystem]

\* _process_input past the jurisdiction gate, lines 70-107: the checks in the
\* order they are awaited, the call leaving through _issue_halt at the first
\* one that fails. checks = the checks evaluated; result = the failing
\* check's result, or Passed when all four passed.
VetoPipeline(input) ==
    LET a == input.artifact
        moral == moral_regression_test(a, input.context)
        ethical == ethical_boundary_check(a, input.context)
        legal == legal_constraint_check(a, input.action_type)
        subsystem == subsystem_constraint_check(a, input.subsystem_origin)
    IN  IF ~moral.passed
        THEN [checks |-> <<"moral_regression_test">>, result |-> moral]
        ELSE IF ~ethical.passed
        THEN [checks |-> <<"moral_regression_test", "ethical_boundary_check">>,
              result |-> ethical]
        ELSE IF ~legal.passed
        THEN [checks |-> <<"moral_regression_test", "ethical_boundary_check",
                           "legal_constraint_check">>,
              result |-> legal]
        ELSE [checks |-> <<"moral_regression_test", "ethical_boundary_check",
                           "legal_constraint_check", "subsystem_constraint_check">>,
              result |-> subsystem]

-----------------------------------------------------------------------------
(* SentinelAgent: halt-repair loop and anti-paralysis monitor *)

\* anti_paralysis.measurement_window as __init__ parses it out of
\* 'last_<N>_decisions'; the test-suite and the examples run with N = 10
DefaultWindow == 10
WindowConfigs == {2, DefaultWindow}
\* anti_paralysis.halt_threshold (0.5)
halt_threshold_percent == 50
\* 'if len(self.recent_decisions) < 10' in _check_anti_paralysis
MinimumSample == 10

\* seq[-n:]
LastN(seq, n) ==
    IF n = 0 \/ n >= Len(seq) THEN seq ELSE SubSeq(seq, Len(seq) - n + 1, Len(seq))

halt_count(decisions) ==
    Cardinality({i \in 1..Len(decisions) : decisions[i].decision \in {"halt", "escalate"}})

\* recent_decisions as _check_anti_paralysis leaves it
WindowAfterCheck(decisions) ==
    IF Len(decisions) < MinimumSample THEN decisions
    ELSE LastN(decisions, measurement_window)

\* 'halt_rate > self.halt_threshold', evaluated on the trimmed window
AntiParalysisTriggered(decisions) ==
    /\ Len(decisions) >= MinimumSample
    /\ LET w == WindowAfterCheck(decisions)
       IN  halt_count(w) * 100 > halt_threshold_percent * Len(w)

CalibrationMessage(decisions) ==
    LET w == WindowAfterCheck(decisions)
    IN  [trigger |-> "anti_paralysis", subsystem |-> "sentinel",
         halt_rate |-> <<halt_count(w), Len(w)>>, threshold |-> halt_threshold_percent]

\* how 'await self.publish(...)' of lines 334-342 can end: the message is
\* published, or redis raises
PublishOutcomes == {"published", "ConnectionError"}

\* self.recent_decisions.append(decision); await self._check_anti_paralysis()
\* A monitor that computes the rate before it appends the decision.
AppendAndCheckStale(decision, outcome) ==
    /\ recent_decisions' = WindowAfterCheck(Append(recent_decisions, decision))
    /\ IF AntiParalysisTriggered(recent_decisions)
       THEN /\ reflective_log' = Append(reflective_log, "anti_paralysis_trigger")
            /\ calibration' = IF outcome = "published"
                              THEN Append(calibration, CalibrationMessage(recent_decisions))
                              ELSE calibration
       ELSE UNCHANGED <<calibration, reflective_log>>

\* _issue_halt lines 304-305 / _process_input lines 115-116 with
\* _check_anti_paralysis: no await between the append and the rate
AppendAndCheck(decision, outcome) ==
    LET appended == Append(recent_decisions, decision)
    IN  /\ recent_decisions' = WindowAfterCheck(appended)
        /\ IF AntiParalysisTriggered(appended)
           THEN /\ reflective_log' = Append(reflective_log, "anti_paralysis_trigger")
                /\ calibration' = IF outcome = "published"
                                  THEN Append(calibration, CalibrationMessage(appended))
                                  ELSE calibration
           ELSE UNCHANGED <<calibration, reflective_log>>

\* the outcomes to consider for a decision: those of the publish when the
\* monitor publishes, none otherwise
OutcomesFor(decision) ==
    IF AntiParalysisTriggered(Append(recent_decisions, decision))
    THEN PublishOutcomes ELSE {"published"}

\* The monitor swallowing a failed publish.
AfterMonitorSwallows(decision, outcome) == decision

\* how the call ends after lines 115-116 / 304-305: 'return decision', unless
\* the publish raised; nothing in _check_anti_paralysis or its callers
\* catches that, so the exception leaves _process_input
AfterMonitor(decision, outcome) ==
    IF AntiParalysisTriggered(Append(recent_decisions, decision)) /\ outcome # "published"
    THEN [decision |-> "raised", error |-> outcome, resolved |-> decision.decision]
    ELSE decision

\* The halt event written with the counter's value before the increment.
HaltEventStaleCount(context, reason, count) ==
    [halted_subsystem |-> ContextGet(context, "subsystem_origin", "unknown"),
     halt_reason |-> reason,
     repair_cycle_count |-> count - 1]

\* the row of lines 262-275
HaltEvent(context, reason, count) ==
    [halted_subsystem |-> ContextGet(context, "subsystem_origin", "unknown"),
     halt_reason |-> reason,
     repair_cycle_count |-> count]

\* The increment lost.
NextRepairCycleStuck(cycle) == cycle

\* 'self.current_repair_cycle += 1'
NextRepairCycle(cycle) == cycle + 1

\* The escalation test with the comparison off by one.
ShouldEscalateStrict(cycle, max) == cycle > max

\* 'if self.current_repair_cycle >= self.max_repair_cycles'
ShouldEscalate(cycle, max) == cycle >= max

\* what history keeps of a returned call
Summary(input, failing, output) ==
    [origin |-> input.subsystem_origin,
     threshold |-> is_threshold_action(input.action_type),
     failing |-> failing,
     decision |-> output.decision,
     resolved |-> IF "resolved" \in DOMAIN output THEN output.resolved ELSE output.decision,
     repair_cycle |-> IF "repair_cycle" \in DOMAIN output THEN output.repair_cycle ELSE 0,
     escalation_target |->
        IF "escalation_target" \in DOMAIN output THEN output.escalation_target ELSE "none"]

\* the call returns output; failing = it returns out of _issue_halt
Return(input, checks, failing, output) ==
    /\ history' = Append(history, Summary(input, failing, output))
    /\ last' = [input |-> input, checks |-> checks, output |-> output]

Started == Len(history) + Len(pending)

\* _process_input, lines 63-68: outside the adjudicator's jurisdiction
NotThresholdAction(input, inflight, budget) ==
    /\ Started < budget
    /\ Len(pending) < inflight
    /\ ~is_threshold_action(input.action_type)
    /\ Return(input, <<>>, FALSE,
              [decision |-> "approve", reason |-> "not_threshold_action"])
    /\ UNCHANGED <<max_repair_cycles, measurement_window, current_repair_cycle, recent_decisions,
                   halt_events, calibration, reflective_log, pending>>
    /\ UNCHANGED non_sentinel_vars

\* _process_input, lines 70-118: all four checks passed
Approve(input, inflight, budget) ==
    /\ Started < budget
    /\ Len(pending) < inflight
    /\ is_threshold_action(input.action_type)
    /\ LET veto == VetoPipeline(input)
       IN  /\ veto.result.passed
           /\ \E outcome \in OutcomesFor([decision |-> "approve"]) :
                 /\ AppendAndCheck([decision |-> "approve"], outcome)
                 /\ Return(input, veto.checks, FALSE,
                           AfterMonitor([decision |-> "approve"], outcome))
    /\ UNCHANGED <<max_repair_cycles, measurement_window, current_repair_cycle, halt_events, pending>>
    /\ UNCHANGED non_sentinel_vars

\* _process_input into _issue_halt, lines 259-277: the counter is incremented
\* and the halt event inserted with the incremented value; the call then
\* waits for the database.
IssueHaltBegin(input, inflight, budget) ==
    /\ Started < budget
    /\ Len(pending) < inflight
    /\ is_threshold_action(input.action_type)
    /\ LET veto == VetoPipeline(input)
       IN  /\ ~veto.result.passed
           /\ current_repair_cycle' = NextRepairCycle(current_repair_cycle)
           /\ halt_events' = Append(halt_events,
                HaltEvent(input.context, veto.result.reason,
                          NextRepairCycle(current_repair_cycle)))
           /\ pending' = Append(pending,
                [input |-> input,
                 checks |-> veto.checks,
                 reason |-> veto.result.reason,
                 fault_code |-> veto.result.fault_code,
                 halt_event_id |-> Len(halt_events) + 1])
    /\ UNCHANGED <<max_repair_cycles, measurement_window, recent_decisions, calibration, reflective_log,
                   history, last>>
    /\ UNCHANGED non_sentinel_vars

\* _issue_halt after the INSERT returned, lines 279-307
IssueHaltResume(k) ==
    /\ k \in 1..Len(pending)
    /\ LET call == pending[k]
           rest == [i \in 1..(Len(pending) - 1) |->
                        IF i < k THEN pending[i] ELSE pending[i + 1]]
       IN  /\ pending' = rest
           /\ IF ShouldEscalate(current_repair_cycle, max_repair_cycles)
              THEN /\ reflective_log' = Append(reflective_log, "escalation")
                   /\ Return(call.input, call.checks, TRUE,
                             [decision |-> "escalate",
                              halt_reason |-> call.reason,
                              fault_code |-> call.fault_code,
                              repair_cycle |-> current_repair_cycle,
                              escalation_target |-> "user_via_mirror",
                              halt_event_id |-> call.halt_event_id])
                   /\ UNCHANGED <<recent_decisions, calibration>>
              ELSE LET decision == [decision |-> "halt",
                                    halt_reason |-> call.reason,
                                    fault_code |-> call.fault_code,
                                    repair_cycle |-> current_repair_cycle,
                                    halt_event_id |-> call.halt_event_id]
                   IN  \E outcome \in OutcomesFor(decision) :
                          /\ AppendAndCheck(decision, outcome)
                          /\ Return(call.input, call.checks, TRUE,
                                    AfterMonitor(decision, outcome))
    /\ UNCHANGED <<max_repair_cycles, measurement_window, current_repair_cycle, halt_events>>
    /\ UNCHANGED non_sentinel_vars

SentinelInit ==
    /\ max_repair_cycles \in RepairCycleConfigs
    /\ measurement_window \in WindowConfigs
    /\ current_repair_cycle = 0
    /\ recent_decisions = <<>>
    /\ halt_events = <<>>
    /\ calibration = <<>>
    /\ reflective_log = <<>>
    /\ pending = <<>>
    /\ history = <<>>
    /\ last = [input |-> "none", checks |-> <<>>, output |-> "none"]

-----------------------------------------------------------------------------
(* BaseAgent.request over Redis pub/sub *)

\* two request() calls of one sender to one target
Calls == {1, 2}
Sender == "executor"
Target == "sentinel"
None == <<"None">>

\* f"{self.subsystem_id.value}:{target_subsystem}:{datetime.utcnow().timestamp()}"
RequestId(sender, target, timestamp) == <<sender, target, timestamp>>
RequestChannel(target) == <<"request", target>>
ResponseChannel(request_id) == <<"response", request_id>>

MyResponseChannel(c) == ResponseChannel(RequestId(Sender, Target, req_id[c]))

\* redis PUBLISH: the message reaches the pubsubs subscribed to the channel
\* at that moment and nobody else (no backlog)
Deliver(channel, data) ==
    inbox' = [c \in Calls |->
                IF subscribed[c] /\ MyResponseChannel(c) = channel
                THEN Append(inbox[c], data) ELSE inbox[c]]

\* request(), lines 301-315: the request id is built and the request
\* envelope published on the target's request channel, where the callee
\* receives it
ReqPublish(c, timeout) ==
    /\ req_pc[c] = "idle"
    /\ req_id' = [req_id EXCEPT ![c] = now]
    /\ req_timeout' = [req_timeout EXCEPT ![c] = timeout]
    /\ callee_todo' = callee_todo \cup {c}
    /\ req_trace' = [req_trace EXCEPT ![c] = Append(@, "publish")]
    /\ req_pc' = [req_pc EXCEPT ![c] = "published"]
    /\ UNCHANGED <<now, req_deadline, req_result, subscribed, inbox, channel_replies>>
    /\ UNCHANGED non_request_vars

\* request(), lines 318-322: subscribe to the response channel, then enter
\* asyncio.timeout(timeout)
ReqSubscribe(c) ==
    /\ req_pc[c] = "published"
    /\ subscribed' = [subscribed EXCEPT ![c] = TRUE]
    /\ req_deadline' = [req_deadline EXCEPT ![c] = now + req_timeout[c]]
    /\ req_trace' = [req_trace EXCEPT ![c] = Append(@, "subscribe")]
    /\ req_pc' = [req_pc EXCEPT ![c] = "listening"]
    /\ UNCHANGED <<now, req_id, req_timeout, req_result, inbox, channel_replies, callee_todo>>
    /\ UNCHANGED non_request_vars

\* the callee answers the request of call i on the response channel that
\* request names; the data is a JSON document or text that is not JSON
CalleeReply(i, wellformed) ==
    /\ i \in callee_todo
    /\ LET data == IF wellformed THEN <<"response", i>> ELSE <<"malformed", i>>
           channel == MyResponseChannel(i)
       IN  /\ Deliver(channel, data)
           /\ channel_replies' = [c \in Calls |->
                    IF req_pc[c] # "idle" /\ MyResponseChannel(c) = channel
                    THEN channel_replies[c] \cup {[at |-> now, data |-> data]}
                    ELSE channel_replies[c]]
    /\ callee_todo' = callee_todo \ {i}
    /\ UNCHANGED <<now, req_pc, req_id, req_timeout, req_deadline, req_result,
                   subscribed, req_trace>>
    /\ UNCHANGED non_request_vars

\* request(), lines 323-326: listen() yields a message before the timeout
\* fires; json.loads either decodes it or raises out of request()
ReqReceive(c) ==
    /\ req_pc[c] = "listening"
    /\ inbox[c] # <<>>
    /\ now < req_deadline[c]
    /\ inbox' = [inbox EXCEPT ![c] = Tail(@)]
    /\ IF Head(inbox[c])[1] = "malformed"
       THEN /\ req_pc' = [req_pc EXCEPT ![c] = "raised"]
            /\ req_result' = [req_result EXCEPT ![c] = <<"JSONDecodeError">>]
       ELSE /\ req_pc' = [req_pc EXCEPT ![c] = "unsubscribing"]
            /\ req_result' = [req_result EXCEPT ![c] = Head(inbox[c])]
    /\ UNCHANGED <<now, req_id, req_timeout, req_deadline, subscribed, channel_replies,
                   callee_todo, req_trace>>
    /\ UNCHANGED non_request_vars

\* request(), lines 326-327: the unsubscribe completes, the response is returned
ReqReturnResponse(c) ==
    /\ req_pc[c] = "unsubscribing"
    /\ subscribed' = [subscribed EXCEPT ![c] = FALSE]
    /\ req_trace' = [req_trace EXCEPT ![c] = Append(@, "unsubscribe")]
    /\ req_pc' = [req_pc EXCEPT ![c] = "returned"]
    /\ UNCHANGED <<now, req_id, req_timeout, req_deadline, req_result, inbox,
                   channel_replies, callee_todo>>
    /\ UNCHANGED non_request_vars

\* request(), lines 322, 328-329: the timeout fires while the call awaits
\* inside the 'async with' (in listen(), or in the unsubscribe of line 326)
ReqTimeout(c) ==
    /\ req_pc[c] \in {"listening", "unsubscribing"}
    /\ now >= req_deadline[c]
    /\ req_pc' = [req_pc EXCEPT ![c] = "timed_out"]
    /\ req_trace' = [req_trace EXCEPT ![c] = Append(@, "timeout")]
    /\ UNCHANGED <<now, req_id, req_timeout, req_deadline, req_result, subscribed,
                   inbox, channel_replies, callee_todo>>
    /\ UNCHANGED non_request_vars

\* The handler letting the timeout escape, the subscription kept.
TimeoutOutcomeRaises == [pc |-> "raised", result |-> <<"TimeoutError">>, subscribed |-> TRUE]

\* 'except asyncio.TimeoutError', lines 328-331: how the handler ends
TimeoutOutcome == [pc |-> "returned", result |-> None, subscribed |-> FALSE]

\* request(), lines 330-331
ReqTimeoutReturn(c) ==
    /\ req_pc[c] = "timed_out"
    /\ subscribed' = [subscribed EXCEPT ![c] = TimeoutOutcome.subscribed]
    /\ req_result' = [req_result EXCEPT ![c] = TimeoutOutcome.result]
    /\ req_pc' = [req_pc EXCEPT ![c] = TimeoutOutcome.pc]
    /\ req_trace' = [req_trace EXCEPT ![c] =
                        IF TimeoutOutcome.subscribed THEN @ ELSE Append(@, "unsubscribe")]
    /\ UNCHANGED <<now, req_id, req_timeout, req_deadline, inbox, channel_replies, callee_todo>>
    /\ UNCHANGED non_request_vars

\* the task running request() is cancelled while it waits in listen():
\* CancelledError is not asyncio.TimeoutError, so lines 328-331 do not run
\* and there is no finally clause
ReqCancel(c) ==
    /\ req_pc[c] = "listening"
    /\ req_pc' = [req_pc EXCEPT ![c] = "cancelled"]
    /\ req_result' = [req_result EXCEPT ![c] = <<"CancelledError">>]
    /\ UNCHANGED <<now, req_id, req_timeout, req_deadline, subscribed, inbox,
                   channel_replies, callee_todo, req_trace>>
    /\ UNCHANGED non_request_vars

\* time passes; a listener whose message arrived in time runs before the
\* clock advances (the event loop is not starved)
Tick ==
    /\ now < MaxTime
    /\ \A c \in Calls :
          ~(req_pc[c] = "listening" /\ inbox[c] # <<>> /\ now < req_deadline[c])
    /\ now' = now + 1
    /\ UNCHANGED <<req_pc, req_id, req_timeout, req_deadline, req_result, subscribed,
                   inbox, channel_replies, callee_todo, req_trace>>
    /\ UNCHANGED non_request_vars

RequestInit ==
    /\ now = 0
    /\ req_pc = [c \in Calls |-> "idle"]
    /\ req_id = [c \in Calls |-> -1]
    /\ req_timeout = [c \in Calls |-> 0]
    /\ req_deadline = [c \in Calls |-> -1]
    /\ req_result = [c \in Calls |-> <<"pending">>]
    /\ subscribed = [c \in Calls |-> FALSE]
    /\ inbox = [c \in Calls |-> <<>>]
    /\ channel_replies = [c \in Calls |-> {}]
    /\ callee_todo = {}
    /\ req_trace = [c \in Calls |-> <<>>]

-----------------------------------------------------------------------------
(* BaseAgent.process: the compliance wrapper around _process_input *)

\* two process() calls on one agent
Procs == {1, 2}

\* inputs by what the subclass logic does with them: 'task' is processed,
\* 'no_task' lacks the key ExecutorAgent._process_input reads first,
\* 'self_routing' yields an output the subclass' _check_constraints rejects
ProcInputs == {"task", "no_task", "self_routing"}

\* _process_input of a subclass whose logic is pure: a function of the input
process_input(input) ==
    IF input = "no_task"
    THEN [raised |-> TRUE, value |-> <<"KeyError", "task">>]
    ELSE [raised |-> FALSE, value |-> <<"output", input>>]

\* _check_constraints as a subclass overrides it
check_constraints(output) == output # <<"output", "self_routing">>

\* The guard of process() never rejecting.
NotActiveNever(is_active) == FALSE

\* 'if not self.active'
NotActive(is_active) == ~is_active

\* Every row given the id of the first row.
NewIdFirst(table) == 1

\* 'RETURNING id' of a serial primary key
NewId(table) == Len(table) + 1

InputRecord(input) ==
    [event_type |-> "input_received", context |-> [input |-> input],
     related_event_id |-> 0]

\* The output record written without its correlation.
OutputRecordUnrelated(output, event_id) ==
    [event_type |-> "output_generated", context |-> [output |-> output],
     related_event_id |-> 0]

OutputRecord(output, event_id) ==
    [event_type |-> "output_generated", context |-> [output |-> output],
     related_event_id |-> event_id]

\* The error record written without its correlation.
ErrorRecordUnrelated(fault, input, event_id) ==
    [event_type |-> "processing_error", context |-> [error |-> fault, input |-> input],
     related_event_id |-> 0]

ErrorRecord(fault, input, event_id) ==
    [event_type |-> "processing_error", context |-> [error |-> fault, input |-> input],
     related_event_id |-> event_id]

\* The violation logged with a lower severity.
ViolationRecordMinor(input, output) ==
    [violation_type |-> "constraint_violation", severity |-> "minor",
     context |-> [input |-> input, output |-> output]]

ViolationRecord(input, output) ==
    [violation_type |-> "constraint_violation", severity |-> "major",
     context |-> [input |-> input, output |-> output]]

NotActiveError == <<"RuntimeError", "not active">>
ConstraintViolationError == <<"ValueError", "Constitutional constraint violation">>

Step(op, id) == [op |-> op, id |-> id]

InFlight(p) == proc_pc[p] \notin {"idle", "returned", "raised"}

\* initialize(), lines 78-84
Initialize ==
    /\ ~active
    /\ active' = TRUE
    /\ UNCHANGED <<episodic_memory, constitutional_violations, proc_pc, proc_input,
                   proc_event_id, proc_output, proc_result, proc_trace>>
    /\ UNCHANGED non_process_vars

\* shutdown(), lines 86-93, called once the calls made have been awaited
Shutdown ==
    /\ active
    /\ \A p \in Procs : ~InFlight(p)
    /\ active' = FALSE
    /\ UNCHANGED <<episodic_memory, constitutional_violations, proc_pc, proc_input,
                   proc_event_id, proc_output, proc_result, proc_trace>>
    /\ UNCHANGED non_process_vars

\* process(), lines 341-348: the activity guard, then the input record
ProcessBegin(p, input) ==
    /\ proc_pc[p] = "idle"
    /\ proc_input' = [proc_input EXCEPT ![p] = input]
    /\ IF NotActive(active)
       THEN /\ proc_pc' = [proc_pc EXCEPT ![p] = "raised"]
            /\ proc_result' = [proc_result EXCEPT ![p] = NotActiveError]
            /\ UNCHANGED <<episodic_memory, proc_event_id, proc_trace>>
       ELSE /\ episodic_memory' = Append(episodic_memory, InputRecord(input))
            /\ proc_event_id' = [proc_event_id EXCEPT ![p] = NewId(episodic_memory)]
            /\ proc_trace' = [proc_trace EXCEPT ![p] =
                    Append(@, Step("write_episodic", NewId(episodic_memory)))]
            /\ proc_pc' = [proc_pc EXCEPT ![p] = "input_logged"]
            /\ UNCHANGED proc_result
    /\ UNCHANGED <<active, constitutional_violations, proc_output>>
    /\ UNCHANGED non_process_vars

\* process(), lines 352-355: the subsystem logic, then the post-condition
\* on what it returned
ProcessLogic(p) ==
    /\ proc_pc[p] = "input_logged"
    /\ LET outcome == process_input(proc_input[p])
       IN  /\ proc_output' = [proc_output EXCEPT ![p] = outcome.value]
           /\ IF outcome.raised
              THEN /\ proc_pc' = [proc_pc EXCEPT ![p] = "faulted"]
                   /\ proc_trace' = [proc_trace EXCEPT ![p] =
                            Append(@, Step("_process_input", 0))]
              ELSE /\ proc_pc' = [proc_pc EXCEPT ![p] =
                            IF check_constraints(outcome.value)
                            THEN "compliant" ELSE "rejected"]
                   /\ proc_trace' = [proc_trace EXCEPT ![p] =
                            @ \o <<Step("_process_input", 0), Step("_check_constraints", 0)>>]
    /\ UNCHANGED <<active, episodic_memory, constitutional_violations, proc_input,
                   proc_event_id, proc_result>>
    /\ UNCHANGED non_process_vars

\* process(), lines 356-362: the violation is logged and ValueError raised
\* into the handler of line 373
ProcessLogViolation(p) ==
    /\ proc_pc[p] = "rejected"
    /\ constitutional_violations' = Append(constitutional_violations,
            ViolationRecord(proc_input[p], proc_output[p]))
    /\ proc_trace' = [proc_trace EXCEPT ![p] =
            Append(@, Step("_log_violation", NewId(constitutional_violations)))]
    /\ proc_output' = [proc_output EXCEPT ![p] = ConstraintViolationError]
    /\ proc_pc' = [proc_pc EXCEPT ![p] = "faulted"]
    /\ UNCHANGED <<active, episodic_memory, proc_input, proc_event_id, proc_result>>
    /\ UNCHANGED non_process_vars

\* process(), lines 365-371: the output record, then 'return output'
ProcessWriteOutput(p) ==
    /\ proc_pc[p] = "compliant"
    /\ episodic_memory' = Append(episodic_memory,
            OutputRecord(proc_output[p], proc_event_id[p]))
    /\ proc_trace' = [proc_trace EXCEPT ![p] =
            @ \o <<Step("write_episodic", NewId(episodic_memory)), Step("return", 0)>>]
    /\ proc_result' = [proc_result EXCEPT ![p] = proc_output[p]]
    /\ proc_pc' = [proc_pc EXCEPT ![p] = "returned"]
    /\ UNCHANGED <<active, constitutional_violations, proc_input, proc_event_id, proc_output>>
    /\ UNCHANGED non_process_vars

\* process(), lines 373-380: 'except Exception': the error record, then 'raise'
ProcessWriteError(p) ==
    /\ proc_pc[p] = "faulted"
    /\ episodic_memory' = Append(episodic_memory,
            ErrorRecord(proc_output[p], proc_input[p], proc_event_id[p]))
    /\ proc_trace' = [proc_trace EXCEPT ![p] =
            @ \o <<Step("write_episodic", NewId(episodic_memory)), Step("raise", 0)>>]
    /\ proc_result' = [proc_result EXCEPT ![p] = proc_output[p]]
    /\ proc_pc' = [proc_pc EXCEPT ![p] = "raised"]
    /\ UNCHANGED <<active, constitutional_violations, proc_input, proc_event_id, proc_output>>
    /\ UNCHANGED non_process_vars

ProcessInit ==
    /\ active = FALSE
    /\ episodic_memory = <<>>
    /\ constitutional_violations = <<>>
    /\ proc_pc = [p \in Procs |-> "idle"]
    /\ proc_input = [p \in Procs |-> "none"]
    /\ proc_event_id = [p \in Procs |-> 0]
    /\ proc_output = [p \in Procs |-> <<"none">>]
    /\ proc_result = [p \in Procs |-> <<"pending">>]
    /\ proc_trace = [p \in Procs |-> <<>>]

-----------------------------------------------------------------------------
(* ExecutorAgent: approval by a SentinelAgent, then sandboxed execution *)

\* ExecutorAgent.process calls per behaviour
MaxExecutions == 2

\* initialize() and shutdown() calls on the Chorus per behaviour
MaxLifecycleCalls == 2

\* task['type']: two types the sandbox dispatches on and one it rejects
TaskTypes == {"command", "file_write", "financial"}

\* a task: its type and the keywords json.dumps(task).lower() contains
Tasks == [type : TaskTypes, words : {{}, {"hack"}}]

ExecutorInputs == [task : Tasks, skip_approval : BOOLEAN]

\* _map_task_to_action_type
map_task_to_action_type(task) ==
    IF task.type = "financial" THEN "financial_exposure" ELSE "real_world_execution"

\* the submission _request_sentinel_approval hands to sentinel.process; a
\* task has the top-level keys 'type' and 'parameters' only
ApprovalRequest(task) ==
    [artifact |-> [words |-> task.words, execute_command |-> FALSE],
     subsystem_origin |-> "executor",
     action_type |-> map_task_to_action_type(task),
     context |-> EmptyContext]

\* the decision of a SentinelAgent whose counter stands at 'counter'
SentinelDecision(input, counter, max) ==
    IF ~is_threshold_action(input.action_type) THEN "approve"
    ELSE IF VetoPipeline(input).result.passed THEN "approve"
    ELSE IF ShouldEscalate(NextRepairCycle(counter), max) THEN "escalate"
    ELSE "halt"

\* the dict sentinel.process returns for a submission when the counter of
\* the instance stands at 'counter' and the halt event gets id 'event_id'
SentinelResponse(input, counter, max, event_id) ==
    LET veto == VetoPipeline(input)
        cycle == NextRepairCycle(counter)
    IN  IF ~is_threshold_action(input.action_type)
        THEN [decision |-> "approve", reason |-> "not_threshold_action"]
        ELSE IF veto.result.passed THEN [decision |-> "approve"]
        ELSE IF ShouldEscalate(cycle, max)
        THEN [decision |-> "escalate",
              halt_reason |-> veto.result.reason,
              fault_code |-> veto.result.fault_code,
              repair_cycle |-> cycle,
              escalation_target |-> "user_via_mirror",
              halt_event_id |-> event_id]
        ELSE [decision |-> "halt",
              halt_reason |-> veto.result.reason,
              fault_code |-> veto.result.fault_code,
              repair_cycle |-> cycle,
              halt_event_id |-> event_id]

\* line 123: 'sentinel = SentinelAgent(...)', a new instance for every
\* approval call, whose counter starts at 0 whatever was persisted before
ApprovalCounter(persisted) == 0

\* lines 68-76: the result returned for a task that was not approved
RejectedResult(approval_response) ==
    [status |-> "rejected",
     errors |-> <<ContextGet(approval_response, "halt_reason", <<"">>)>>,
     rollback_available |-> FALSE]

\* _request_sentinel_approval: a SentinelAgent is constructed for the call
\* (counter 0), initialized, asked, and shut down; initialize() and process()
\* can raise
ApprovalOutcomes(task) ==
    {SentinelDecision(ApprovalRequest(task), ApprovalCounter(Len(halt_events)),
                      max_repair_cycles),
     "raised"}

\* An executor that takes every decision for an approval.
approved_always(decision) == TRUE

\* approval_response['decision'] == 'approve'
approved(decision) == decision = "approve"

\* the task types _execute_sandboxed dispatches on
SandboxSupports(type) == type \in {"file_write", "file_read", "command", "api_call"}

\* the seven subsystems (SubsystemID)
Subsystems ==
    {"interpreter", "strategist", "artisan", "ledger", "sentinel", "executor", "mirror"}

\* BaseAgent.__init__ line 73: 'self.current_mode = None'
NoMode == "None"

\* agent.process(...) is entered: write_episodic stores the callee's
\* current_mode in every row the call writes (line 165)
Invoke(agent) ==
    /\ invocations' = Append(invocations, agent)
    /\ modes_seen' = Append(modes_seen, current_mode[agent])

ExecutorCalls ==
    Cardinality({i \in DOMAIN ex_episodic : ex_episodic[i] = "input_received"})

\* BaseAgent.process up to _process_input line 66
ExecutorStart(input) ==
    /\ ex_pc \in {"idle", "done"}
    /\ ex_input' = input
    /\ ex_decision' = "none"
    /\ ex_approval' = [decision |-> "none"]
    /\ ex_result' = [status |-> "pending"]
    /\ ex_episodic' = Append(ex_episodic, "input_received")
    /\ ex_before' = [episodic |-> Len(ex_episodic) + 1,
                     history |-> execution_history,
                     sandbox |-> Len(sandbox_calls)]
    /\ ex_pc' = IF input.skip_approval THEN "sandbox" ELSE "approval"
    /\ Invoke("executor")
    /\ UNCHANGED <<execution_history, sandbox_calls>>

ExecutorBegin(input) ==
    /\ ExecutorCalls < MaxExecutions
    /\ ExecutorStart(input)
    /\ UNCHANGED <<chorus_vars, non_parliament_vars>>

\* _process_input lines 65-76 with _request_sentinel_approval
ExecutorApproval ==
    /\ ex_pc = "approval"
    /\ Invoke("sentinel")
    /\ \E outcome \in ApprovalOutcomes(ex_input.task) :
          LET response == SentinelResponse(ApprovalRequest(ex_input.task),
                                           ApprovalCounter(Len(halt_events)),
                                           max_repair_cycles, Len(halt_events) + 1)
          IN  /\ ex_decision' = outcome
              /\ ex_approval' = IF outcome = "raised" THEN [decision |-> "raised"]
                                ELSE response
              /\ halt_events' =
                    IF outcome \in {"halt", "escalate"}
                    THEN Append(halt_events,
                                HaltEvent(EmptyContext, response.halt_reason,
                                          response.repair_cycle))
                    ELSE halt_events
              /\ IF outcome = "raised"
                 THEN /\ ex_result' = [status |-> "raised"]
                      /\ ex_episodic' = Append(ex_episodic, "processing_error")
                      /\ ex_pc' = "done"
                 ELSE IF ~approved(outcome)
                 THEN /\ ex_result' = RejectedResult(response)
                      /\ ex_episodic' = Append(ex_episodic, "output_generated")
                      /\ ex_pc' = "done"
                 ELSE /\ ex_pc' = "sandbox"
                      /\ UNCHANGED <<ex_result, ex_episodic>>
    /\ UNCHANGED <<ex_input, ex_before, execution_history, sandbox_calls>>
    /\ UNCHANGED <<max_repair_cycles, measurement_window, current_repair_cycle,
                   recent_decisions, calibration, reflective_log, pending, history, last>>
    /\ UNCHANGED <<chorus_vars, request_vars, process_vars, agent_vars, lifecycle_vars>>

\* _process_input lines 78-109
ExecutorSandbox ==
    /\ ex_pc = "sandbox"
    /\ sandbox_calls' = Append(sandbox_calls, ex_input.task)
    /\ IF ~SandboxSupports(ex_input.task.type)
       THEN /\ ex_result' = [status |-> "failure"]
            /\ ex_episodic' = ex_episodic \o <<"execution_error", "output_generated">>
            /\ UNCHANGED execution_history
       ELSE \E status \in {"success", "failure"} :
               /\ ex_result' = [status |-> status]
               /\ ex_episodic' = ex_episodic \o <<"task_executed", "output_generated">>
               /\ execution_history' =
                     Append(execution_history, [task |-> ex_input.task, result |-> status])
    /\ ex_pc' = "done"
    /\ UNCHANGED <<ex_input, ex_decision, ex_approval, ex_before, invocations, modes_seen>>
    /\ UNCHANGED <<chorus_vars, non_parliament_vars>>

ExecutorInit ==
    /\ ex_pc = "idle"
    /\ ex_input = [task |-> [type |-> "none", words |-> {}], skip_approval |-> FALSE]
    /\ ex_decision = "none"
    /\ ex_approval = [decision |-> "none"]
    /\ ex_result = [status |-> "pending"]
    /\ ex_before = [episodic |-> 0, history |-> <<>>, sandbox |-> 0]
    /\ ex_episodic = <<>>
    /\ execution_history = <<>>
    /\ sandbox_calls = <<>>
    /\ invocations = <<>>
    /\ modes_seen = <<>>
    /\ current_mode = [agent \in Subsystems |-> NoMode]

-----------------------------------------------------------------------------
(* Chorus.process_request *)

\* the substrings of user_input.lower() the orchestrator and the routing
\* rules look for, as the sets of them an input contains
ChorusKeywords ==
    {{}, {"mythos"}, {"worldbuild"}, {"risk"}, {"run"}, {"plan"}, {"mythos", "risk"}}

Modes == {"inquiry", "creation", "execution"}

Requests == [keywords : ChorusKeywords, mode : Modes \cup {"auto"},
             require_consensus : BOOLEAN]

execution_keywords ==
    {"run", "execute", "do", "perform", "deploy", "start", "create file", "delete"}

creation_keywords ==
    {"plan", "design", "create", "build", "generate", "write", "compose", "mythos",
     "worldbuild"}

\* _detect_mode
detect_mode(keywords) ==
    IF keywords \cap execution_keywords # {} THEN "execution"
    ELSE IF keywords \cap creation_keywords # {} THEN "creation"
    ELSE "inquiry"

\* the action types InterpreterAgent._semantic_parse classifies an input as
IntentTypes == {"query", "create", "execute", "reflect", "plan"}

\* InterpreterAgent._route_to_subsystem over self.routing_rules
route_to_subsystem(action_type, keywords) ==
    CASE action_type = "query" ->
            IF "mission" \in keywords THEN "mirror"
            ELSE IF "risk" \in keywords THEN "ledger"
            ELSE "interpreter"
      [] action_type = "create" ->
            IF "narrative" \in keywords THEN "artisan"
            ELSE IF "mythos" \in keywords THEN "artisan"
            ELSE "strategist"
      [] action_type = "execute" -> "executor"
      [] action_type = "reflect" -> "mirror"
      [] action_type = "plan" -> "strategist"
      [] OTHER -> "interpreter"

\* the task process_request hands to the executor in execution mode:
\* 'echo "Demo execution"' in /tmp, approval required
ChorusExecutorInput ==
    [task |-> [type |-> "command", words |-> {}], skip_approval |-> FALSE]

\* An orchestrator that hands execution requests straight to the executor.
EntryCallByMode(mode) == IF mode = "execution" THEN "executor" ELSE "interpreter"

\* _route_and_execute line 149: the first awaited subsystem call
EntryCall(mode) == "interpreter"

\* An execution branch that lists the executor only.
ExecutionAgentsExecutorOnly == <<"executor">>

\* line 229: result['agents_involved'].extend(['executor', 'sentinel'])
ExecutionAgents == <<"executor", "sentinel">>

SeqRange(seq) == {seq[i] : i \in DOMAIN seq}

\* A consensus step that asks whoever it wants to hear.
ConsultedNever(agent, involved) == FALSE

\* "'strategist' in current_result['agents_involved']"
Consulted(agent, involved) == agent \in SeqRange(involved)

\* the awaited subsystem calls of process_request in code order
Stages == <<"interpreter", "strategist", "artisan", "ledger", "executor",
            "consensus_strategist", "consensus_ledger", "mirror">>

\* the condition under which the code makes the call of a stage
Due(stage, request, mode, target, involved) ==
    CASE stage = "strategist" ->
            mode = "creation" /\ target \in {"strategist", "interpreter"}
      [] stage = "artisan" ->
            mode = "creation"
            /\ ("mythos" \in request.keywords \/ "worldbuild" \in request.keywords
                \/ target = "artisan")
      [] stage = "ledger" ->
            mode = "creation" /\ (request.require_consensus \/ "risk" \in request.keywords)
      [] stage = "executor" -> mode = "execution"
      [] stage = "consensus_strategist" ->
            request.require_consensus /\ ~Consulted("strategist", involved)
      [] stage = "consensus_ledger" ->
            request.require_consensus /\ ~Consulted("ledger", involved)
      [] stage = "mirror" -> TRUE
      [] OTHER -> FALSE

StageIndex(stage) == CHOOSE i \in DOMAIN Stages : Stages[i] = stage

\* the next call the code reaches after the call 'stage' returned
NextCall(stage, request, mode, target, involved) ==
    LET later == {i \in DOMAIN Stages :
                    i > StageIndex(stage) /\ Due(Stages[i], request, mode, target, involved)}
    IN  Stages[CHOOSE i \in later : \A j \in later : i <= j]

\* consensus_score * 100
consensus_score(perspectives) == IF perspectives # <<>> THEN 75 ELSE 100

\* 'consensus_score >= 0.66', in hundredths
ConsensusThresholdPercent == 66

\* the dict _get_consensus returns
Consensus(perspectives) ==
    [consensus_score |-> consensus_score(perspectives),
     additional_perspectives |-> perspectives,
     threshold_met |-> consensus_score(perspectives) >= ConsensusThresholdPercent]

\* MirrorAgent._process_input returns a 'reflection' dict about the event
Reflection(building) ==
    [about |-> Len(building.agents_involved), mode |-> building.mode_used]

WithEntry(building, key, value) ==
    [k \in DOMAIN building \cup {key} |-> IF k = key THEN value ELSE building[k]]

\* the call of 'stage' returned and left the result dict as 'building': run
\* on to the next awaited call; _get_consensus returns on the way to the
\* mirror and its dict is stored under 'consensus'
Proceed(stage, building, target) ==
    LET next == NextCall(stage, ch_request, ch_mode, target, building.agents_involved)
    IN  /\ ch_pc' = next
        /\ ch_building' =
             IF next = "mirror" /\ ch_request.require_consensus
             THEN WithEntry(building, "consensus", Consensus(building.perspectives))
             ELSE building

\* an awaited call raised: nothing in process_request catches it
Raise(agent) ==
    /\ ch_pc' = "done"
    /\ ch_result' = [status |-> "raised", error |-> agent]
    /\ UNCHANGED ch_building

CallOutcomes == {"returned", "raised"}

\* agent_classes in registration order (lines 53-61)
AgentOrder ==
    <<"interpreter", "strategist", "artisan", "ledger", "sentinel", "executor", "mirror">>

AgentIndex(agent) == CHOOSE i \in DOMAIN AgentOrder : AgentOrder[i] = agent

\* the agent whose construction or initialize() raises, if any
InitFailures == {"none", "interpreter", "artisan"}

\* lines 64-77: agents are registered one by one until one fails
RegisteredBefore(failing) ==
    IF failing = "none" THEN Subsystems
    ELSE {AgentOrder[i] : i \in 1..(AgentIndex(failing) - 1)}

\* the agent whose shutdown() raises, if any
ShutdownFailures == {"none", "interpreter"}

\* lines 320-325: every registered agent is tried, a failure is logged and
\* the loop goes on
ShutdownAttempts(registered, failing) == registered

\* Chorus.initialize: all seven agents initialized, or the first failure
\* re-raised with self.initialized left False
ChorusInitialize ==
    /\ ch_pc \in {"idle", "done"}
    /\ Len(lifecycle) < MaxLifecycleCalls
    /\ IF initialized
       THEN /\ lifecycle' = Append(lifecycle, [op |-> "initialize", outcome |-> "already"])
            /\ UNCHANGED <<initialized, registry>>
       ELSE \E failing \in InitFailures :
               /\ registry' = registry \cup RegisteredBefore(failing)
               /\ initialized' = (failing = "none")
               /\ lifecycle' = Append(lifecycle,
                     [op |-> "initialize",
                      outcome |-> IF failing = "none" THEN "returned" ELSE "raised"])
    /\ UNCHANGED <<ch_pc, ch_request, ch_mode, ch_target, ch_building, ch_result>>
    /\ UNCHANGED <<shutdown_attempts, executor_vars, agent_vars>>
    /\ UNCHANGED <<sentinel_vars, request_vars, process_vars>>

\* Chorus.shutdown, lines 313-329
ChorusShutdown ==
    /\ ch_pc \in {"idle", "done"}
    /\ Len(lifecycle) < MaxLifecycleCalls
    /\ IF ~initialized
       THEN /\ lifecycle' = Append(lifecycle, [op |-> "shutdown", outcome |-> "skipped"])
            /\ UNCHANGED <<initialized, registry, shutdown_attempts>>
       ELSE \E failing \in ShutdownFailures :
               /\ shutdown_attempts' = ShutdownAttempts(registry, failing)
               /\ registry' = {}
               /\ initialized' = FALSE
               /\ lifecycle' = Append(lifecycle, [op |-> "shutdown", outcome |-> "returned"])
    /\ UNCHANGED <<ch_pc, ch_request, ch_mode, ch_target, ch_building, ch_result>>
    /\ UNCHANGED <<executor_vars, agent_vars>>
    /\ UNCHANGED <<sentinel_vars, request_vars, process_vars>>

\* process_request lines 101-111
ProcessRequest(request) ==
    /\ ch_pc = "idle"
    /\ ch_request' = request
    /\ IF ~initialized
       THEN /\ ch_pc' = "done"
            /\ ch_result' = [status |-> "raised", error |-> "RuntimeError"]
            /\ UNCHANGED ch_mode
       ELSE LET mode == IF request.mode = "auto" THEN detect_mode(request.keywords)
                        ELSE request.mode
            IN  /\ ch_mode' = mode
                /\ ch_pc' = EntryCall(mode)
                /\ UNCHANGED ch_result
    /\ UNCHANGED <<initialized, ch_target, ch_building>>
    /\ UNCHANGED <<executor_vars, non_parliament_vars>>

\* _route_and_execute lines 149-169
CallInterpreter ==
    /\ ch_pc = "interpreter"
    /\ Invoke("interpreter")
    /\ \E outcome \in CallOutcomes :
          IF outcome = "raised"
          THEN Raise("interpreter") /\ UNCHANGED ch_target
          ELSE \E action_type \in IntentTypes :
                  LET target == route_to_subsystem(action_type, ch_request.keywords)
                  IN  /\ ch_target' = target
                      /\ Proceed("interpreter",
                            [mode_used |-> ch_mode,
                             interpreter_analysis |-> [target_subsystem |-> target],
                             agents_involved |-> <<"interpreter">>,
                             outputs |-> IF ch_mode = "inquiry" THEN {"interpreter"} ELSE {},
                             perspectives |-> <<>>],
                            target)
                      /\ UNCHANGED ch_result
    /\ UNCHANGED <<initialized, ch_request, ch_mode>>
    /\ UNCHANGED <<ex_pc, ex_input, ex_decision, ex_approval, ex_result, ex_before,
                   ex_episodic, execution_history, sandbox_calls>>
    /\ UNCHANGED non_parliament_vars

\* a creation-mode call of one of strategist, artisan, ledger returned: its
\* output is stored and its name appended to agents_involved
Consult(agent) ==
    Proceed(agent,
            [ch_building EXCEPT !.outputs = @ \cup {agent},
                                !.agents_involved = Append(@, agent)],
            ch_target)

\* _route_and_execute lines 175-183
CallStrategist ==
    /\ ch_pc = "strategist"
    /\ Invoke("strategist")
    /\ \E outcome \in CallOutcomes :
          IF outcome = "raised" THEN Raise("strategist")
          ELSE Consult("strategist") /\ UNCHANGED ch_result
    /\ UNCHANGED <<initialized, ch_request, ch_mode, ch_target>>
    /\ UNCHANGED <<ex_pc, ex_input, ex_decision, ex_approval, ex_result, ex_before,
                   ex_episodic, execution_history, sandbox_calls>>
    /\ UNCHANGED non_parliament_vars

\* _route_and_execute lines 186-194
CallArtisan ==
    /\ ch_pc = "artisan"
    /\ Invoke("artisan")
    /\ \E outcome \in CallOutcomes :
          IF outcome = "raised" THEN Raise("artisan")
          ELSE Consult("artisan") /\ UNCHANGED ch_result
    /\ UNCHANGED <<initialized, ch_request, ch_mode, ch_target>>
    /\ UNCHANGED <<ex_pc, ex_input, ex_decision, ex_approval, ex_result, ex_before,
                   ex_episodic, execution_history, sandbox_calls>>
    /\ UNCHANGED non_parliament_vars

\* _route_and_execute lines 197-209
CallLedger ==
    /\ ch_pc = "ledger"
    /\ Invoke("ledger")
    /\ \E outcome \in CallOutcomes :
          IF outcome = "raised" THEN Raise("ledger")
          ELSE Consult("ledger") /\ UNCHANGED ch_result
    /\ UNCHANGED <<initialized, ch_request, ch_mode, ch_target>>
    /\ UNCHANGED <<ex_pc, ex_input, ex_decision, ex_approval, ex_result, ex_before,
                   ex_episodic, execution_history, sandbox_calls>>
    /\ UNCHANGED non_parliament_vars

\* _route_and_execute lines 215-227: executor.process is entered
CallExecutor ==
    /\ ch_pc = "executor"
    /\ ExecutorStart(ChorusExecutorInput)
    /\ ch_pc' = "executor_wait"
    /\ UNCHANGED <<initialized, ch_request, ch_mode, ch_target, ch_building, ch_result>>
    /\ UNCHANGED non_parliament_vars

\* _route_and_execute lines 224-229: executor.process returned or raised
ExecutorReturns ==
    /\ ch_pc = "executor_wait"
    /\ ex_pc = "done"
    /\ IF ex_result.status = "raised"
       THEN Raise("executor")
       ELSE /\ Proceed("executor",
                  [ch_building EXCEPT !.outputs = @ \cup {"executor"},
                                      !.agents_involved = @ \o ExecutionAgents],
                  ch_target)
            /\ UNCHANGED ch_result
    /\ UNCHANGED <<initialized, ch_request, ch_mode, ch_target>>
    /\ UNCHANGED <<executor_vars, non_parliament_vars>>

\* _get_consensus lines 251-261
ConsensusStrategist ==
    /\ ch_pc = "consensus_strategist"
    /\ Invoke("strategist")
    /\ \E outcome \in CallOutcomes :
          IF outcome = "raised" THEN Raise("strategist")
          ELSE /\ Proceed("consensus_strategist",
                     [ch_building EXCEPT !.perspectives = Append(@, "strategist")],
                     ch_target)
               /\ UNCHANGED ch_result
    /\ UNCHANGED <<initialized, ch_request, ch_mode, ch_target>>
    /\ UNCHANGED <<ex_pc, ex_input, ex_decision, ex_approval, ex_result, ex_before,
                   ex_episodic, execution_history, sandbox_calls>>
    /\ UNCHANGED non_parliament_vars

\* _get_consensus lines 264-273
ConsensusLedger ==
    /\ ch_pc = "consensus_ledger"
    /\ Invoke("ledger")
    /\ \E outcome \in CallOutcomes :
          IF outcome = "raised" THEN Raise("ledger")
          ELSE /\ Proceed("consensus_ledger",
                     [ch_building EXCEPT !.perspectives = Append(@, "ledger")],
                     ch_target)
               /\ UNCHANGED ch_result
    /\ UNCHANGED <<initialized, ch_request, ch_mode, ch_target>>
    /\ UNCHANGED <<ex_pc, ex_input, ex_decision, ex_approval, ex_result, ex_before,
                   ex_episodic, execution_history, sandbox_calls>>
    /\ UNCHANGED non_parliament_vars

\* process_request lines 117-120 with _get_reflection
CallMirror ==
    /\ ch_pc = "mirror"
    /\ Invoke("mirror")
    /\ \E outcome \in CallOutcomes :
          IF outcome = "raised" THEN Raise("mirror")
          ELSE /\ ch_pc' = "done"
               /\ ch_result' = [status |-> "returned",
                                value |-> WithEntry(ch_building, "reflection",
                                                    Reflection(ch_building))]
               /\ UNCHANGED ch_building
    /\ UNCHANGED <<initialized, ch_request, ch_mode, ch_target>>
    /\ UNCHANGED <<ex_pc, ex_input, ex_decision, ex_approval, ex_result, ex_before,
                   ex_episodic, execution_history, sandbox_calls>>
    /\ UNCHANGED non_parliament_vars

ChorusInit ==
    /\ initialized = FALSE
    /\ ch_pc = "idle"
    /\ ch_request = [keywords |-> {}, mode |-> "auto", require_consensus |-> FALSE]
    /\ ch_mode = "none"
    /\ ch_target = "none"
    /\ ch_building = [mode_used |-> "none",
                      interpreter_analysis |-> [target_subsystem |-> "none"],
                      agents_involved |-> <<>>, outputs |-> {}, perspectives |-> <<>>]
    /\ ch_result = [status |-> "pending"]
    /\ registry = {}
    /\ lifecycle = <<>>
    /\ shutdown_attempts = {}

ParliamentInit == ExecutorInit /\ ChorusInit

-----------------------------------------------------------------------------
(* Specifications *)

Init ==
    SentinelInit /\ RequestInit /\ ProcessInit /\ ParliamentInit
    /\ measurement_window = DefaultWindow

\* one adjudicator, each call awaited before the next is made
Next ==
    \/ \E input \in Inputs : NotThresholdAction(input, 1, MaxSubmissions)
    \/ \E input \in Inputs : Approve(input, 1, MaxSubmissions)
    \/ \E input \in Inputs : IssueHaltBegin(input, 1, MaxSubmissions)
    \/ \E k \in 1..MaxSubmissions : IssueHaltResume(k)

Spec == Init /\ [][Next]_vars

\* request() calls, the callee and the clock, every interleaving
InitRequest == Init /\ max_repair_cycles = 3

NextRequest ==
    \/ \E c \in Calls, t \in 1..MaxTimeout : ReqPublish(c, t)
    \/ \E c \in Calls : ReqSubscribe(c)
    \/ \E i \in Calls, w \in BOOLEAN : CalleeReply(i, w)
    \/ \E c \in Calls : ReqReceive(c)
    \/ \E c \in Calls : ReqReturnResponse(c)
    \/ \E c \in Calls : ReqTimeout(c)
    \/ \E c \in Calls : ReqTimeoutReturn(c)
    \/ \E c \in Calls : ReqCancel(c)
    \/ Tick

SpecRequest == InitRequest /\ [][NextRequest]_vars

\* the anti-paralysis monitor: one adjudicator fed threshold submissions one
\* at a time, for every configured window size
InitWindow == SentinelInit /\ RequestInit /\ ProcessInit /\ ParliamentInit

NextWindow ==
    \/ \E input \in WindowInputs : Approve(input, 1, MaxWindowSubmissions)
    \/ \E input \in WindowInputs : IssueHaltBegin(input, 1, MaxWindowSubmissions)
    \/ IssueHaltResume(1)

SpecWindow == InitWindow /\ [][NextWindow]_vars

\* process() calls on one agent between initialize() and shutdown(), every
\* interleaving of their awaits
\* the adjudicator after WarmUp approved threshold submissions, handled one
\* at a time: the next two decisions complete the monitor's minimum sample
WarmUp == MinimumSample - 2

WarmUpInput ==
    [artifact |-> [words |-> {}, execute_command |-> FALSE],
     subsystem_origin |-> "strategist", action_type |-> "execution",
     context |-> EmptyContext]

InitConcurrent ==
    /\ max_repair_cycles \in RepairCycleConfigs
    /\ measurement_window \in WindowConfigs
    /\ current_repair_cycle = 0
    /\ recent_decisions = [i \in 1..WarmUp |-> [decision |-> "approve"]]
    /\ halt_events = <<>>
    /\ calibration = <<>>
    /\ reflective_log = <<>>
    /\ pending = <<>>
    /\ history = [i \in 1..WarmUp |->
                     Summary(WarmUpInput, FALSE, [decision |-> "approve"])]
    /\ last = [input |-> WarmUpInput, checks |-> VetoPipeline(WarmUpInput).checks,
               output |-> [decision |-> "approve"]]
    /\ RequestInit /\ ProcessInit /\ ParliamentInit

NextConcurrent ==
    \/ \E input \in WindowInputs : Approve(input, MaxInFlight, WarmUp + MaxSubmissions)
    \/ \E input \in WindowInputs :
          IssueHaltBegin(input, MaxInFlight, WarmUp + MaxSubmissions)
    \/ \E k \in 1..MaxInFlight : IssueHaltResume(k)

SpecConcurrent == InitConcurrent /\ [][NextConcurrent]_vars

NextProcess ==
    \/ Initialize
    \/ Shutdown
    \/ \E p \in Procs, input \in ProcInputs : ProcessBegin(p, input)
    \/ \E p \in Procs : ProcessLogic(p)
    \/ \E p \in Procs : ProcessLogViolation(p)
    \/ \E p \in Procs : ProcessWriteOutput(p)
    \/ \E p \in Procs : ProcessWriteError(p)

SpecProcess == Init /\ [][NextProcess]_vars

NextExecutor ==
    \/ \E input \in ExecutorInputs : ExecutorBegin(input)
    \/ ExecutorApproval
    \/ ExecutorSandbox

SpecExecutor == Init /\ [][NextExecutor]_vars

NextChorus ==
    \/ ChorusInitialize
    \/ \E request \in Requests : ProcessRequest(request)
    \/ CallInterpreter
    \/ CallStrategist
    \/ CallArtisan
    \/ CallLedger
    \/ CallExecutor
    \/ ExecutorApproval
    \/ ExecutorSandbox
    \/ ExecutorReturns
    \/ ConsensusStrategist
    \/ ConsensusLedger
    \/ CallMirror

SpecChorus == Init /\ [][NextChorus]_vars

NextLifecycle ==
    \/ NextChorus
    \/ ChorusShutdown

SpecLifecycle == Init /\ [][NextLifecycle]_vars

-----------------------------------------------------------------------------
(* Claims: the adjudicator (checked under Spec) *)

Min(a, b) == IF a <= b THEN a ELSE b

IsThresholdApprove(h) == h.threshold /\ h.decision = "approve"

\* C1: with max_repair_cycles = 3, the first three calls made to a fresh
\* adjudicator, all failing threshold submissions from one origin, return
\* halt with repair_cycle 1, halt with repair_cycle 2, then escalate with
\* repair_cycle 3 and escalation_target 'user_via_mirror'.
C1_ThreeFailuresEscalate ==
    LET n == Min(Len(history), 3)
    IN  (/\ max_repair_cycles = 3
         /\ \A i \in 1..n : history[i].failing /\ history[i].origin = history[1].origin)
        => \A i \in 1..n :
              /\ history[i].repair_cycle = i
              /\ history[i].decision = IF i < 3 THEN "halt" ELSE "escalate"
              /\ i = 3 => history[i].escalation_target = "user_via_mirror"

C1_Witness ==
    /\ max_repair_cycles = 3
    /\ Len(history) = 3
    /\ \A i \in 1..3 : history[i].failing /\ history[i].origin = history[1].origin
    /\ history[3].decision = "escalate"

\* C2: once approve has been returned for a threshold submission of an
\* origin the repair-cycle counter is zero, and the next failing submission
\* of that origin is returned with repair_cycle = 1.
C2_ApproveResetsCounter ==
    /\ (history # <<>> /\ pending = <<>> /\ IsThresholdApprove(history[Len(history)]))
          => current_repair_cycle = 0
    /\ \A i, j \in 1..Len(history) :
          (/\ i < j
           /\ IsThresholdApprove(history[i])
           /\ history[j].failing
           /\ history[j].origin = history[i].origin
           /\ \A m \in (i+1)..(j-1) :
                 ~(history[m].failing /\ history[m].origin = history[i].origin))
          => history[j].repair_cycle = 1

\* C3: the repair-cycle counter is kept per origin: as long as nothing has
\* been approved, the repair_cycle returned for a failing submission is the
\* number of failing submissions made so far by that same origin, and the
\* submission is escalated exactly when that number reaches the maximum.
C3_CounterPerOrigin ==
    \A i \in 1..Len(history) :
        (/\ history[i].failing
         /\ \A j \in 1..(i-1) : ~IsThresholdApprove(history[j]))
        => LET own == Cardinality({j \in 1..i : /\ history[j].failing
                                                /\ history[j].origin = history[i].origin})
           IN  /\ history[i].repair_cycle = own
               /\ history[i].decision = "escalate" <=> own >= max_repair_cycles

C5_NonThresholdBypasses ==
    (history # <<>> /\ last.input.action_type \notin restriction_thresholds)
    => /\ last.output = [decision |-> "approve", reason |-> "not_threshold_action"]
       /\ last.checks = <<>>

C5_Witness ==
    /\ history # <<>>
    /\ last.input.action_type \notin restriction_thresholds
    /\ last.input.artifact.words = Words
    /\ last.input.artifact.execute_command
    /\ last.output.decision = "approve"

C6_Order ==
    <<"moral_regression_test", "ethical_boundary_check",
      "legal_constraint_check", "subsystem_constraint_check">>

C6_Results(input) ==
    <<moral_regression_test(input.artifact, input.context),
      ethical_boundary_check(input.artifact, input.context),
      legal_constraint_check(input.artifact, input.action_type),
      subsystem_constraint_check(input.artifact, input.subsystem_origin)>>

C6_FirstFailing(input) ==
    LET r == C6_Results(input)
    IN  IF \A i \in 1..4 : r[i].passed THEN 0
        ELSE CHOOSE k \in 1..4 : ~r[k].passed /\ \A i \in 1..(k-1) : r[i].passed

\* C6: for a threshold submission the checks are evaluated in the order
\* regression test, boundary check, legal check, origin-constraint check; when
\* check k is the first that fails the decision carries check k's reason and
\* fault code and exactly the checks 1..k were evaluated; approve is returned
\* exactly when all four pass.
C6_FailFastOrder ==
    (history # <<>> /\ last.input.action_type \in restriction_thresholds)
    => LET k == C6_FirstFailing(last.input)
           r == C6_Results(last.input)
       IN  /\ k = 0 <=> last.output.decision = "approve"
           /\ k = 0 => last.checks = C6_Order
           /\ k # 0 => /\ last.output.decision \in {"halt", "escalate"}
                       /\ last.output.halt_reason = r[k].reason
                       /\ last.output.fault_code = r[k].fault_code
                       /\ last.checks = SubSeq(C6_Order, 1, k)

C6_Witness ==
    /\ history # <<>>
    /\ last.input.action_type \in restriction_thresholds
    /\ last.input.artifact.words = {"hack", "identity fragmentation"}
    /\ last.input.artifact.execute_command
    /\ last.output.decision = "halt"
    /\ last.output.fault_code = "user_arc_violation"
    /\ Len(last.checks) = 2

\* C18: the decision returned for a threshold submission, whether approve,
\* halt or escalate, has been appended to recent_decisions exactly once when
\* the call returns: the window is then what it was plus that decision at its
\* end, less whatever the monitor dropped from its front.
C18_EveryDecisionAppended ==
    [][(Len(history') > Len(history)
            /\ last'.input.action_type \in restriction_thresholds)
       => LET appended == Append(recent_decisions, last'.output)
          IN  \E k \in 1..Len(appended) :
                 recent_decisions' = SubSeq(appended, k, Len(appended))]_vars

FailingCalls(h) == Cardinality({i \in 1..Len(h) : h[i].failing})

C24_HaltEventNamesOrigin ==
    (history # <<>> /\ last.output.decision \in {"halt", "escalate"})
    => halt_events[last.output.halt_event_id].halted_subsystem
          = last.input.subsystem_origin

\* C36: a call for a submission outside the adjudicator's jurisdiction
\* leaves its state as it was: the repair-cycle counter and recent_decisions
\* are unchanged, no halt event is persisted and no calibration message is
\* published.
C36_NonThresholdLeavesStateUntouched ==
    [][(Len(history') > Len(history)
            /\ last'.input.action_type \notin restriction_thresholds)
       => /\ current_repair_cycle' = current_repair_cycle
          /\ recent_decisions' = recent_decisions
          /\ halt_events' = halt_events
          /\ calibration' = calibration
          /\ pending' = pending]_vars

C36_Witness ==
    /\ Len(history) = 3
    /\ history[1].decision = "halt"
    /\ IsThresholdApprove(history[2])
    /\ ~history[3].threshold
    /\ current_repair_cycle = 1
    /\ Len(recent_decisions) = 2
    /\ Len(halt_events) = 1

-----------------------------------------------------------------------------
(* Claims: the anti-paralysis monitor (checked under SpecWindow) *)

\* the decisions appended to the window so far, oldest first, as the
\* returned calls tell: those of threshold submissions that were not escalated
AppendedDecisions(h) ==
    LET kept == SelectSeq(h, LAMBDA e : e.threshold /\ e.resolved \in {"approve", "halt"})
    IN  [i \in 1..Len(kept) |-> kept[i].resolved]

\* the n most recent elements of seq, in order
MostRecent(seq, n) ==
    IF n >= Len(seq) THEN seq ELSE SubSeq(seq, Len(seq) - n + 1, Len(seq))

Halts(decisions) ==
    Cardinality({i \in 1..Len(decisions) : decisions[i] \in {"halt", "escalate"}})

\* C19: when no adjudicator call is in progress, recent_decisions holds at
\* most measurement_window entries, and they are the most recently appended
\* decisions in append order, for every configured window size.
C19_WindowIsTrailingRing ==
    pending = <<>>
    => /\ Len(recent_decisions) <= measurement_window
       /\ [i \in 1..Len(recent_decisions) |-> recent_decisions[i].decision]
             = MostRecent(AppendedDecisions(history), measurement_window)

\* C20: at each append to the window (the publish itself not failing): a
\* calibration message carrying the
\* observed rate and the threshold is published exactly when at least the
\* minimum sample of decisions has been appended and the number of halt or
\* escalate decisions among the measurement_window most recent ones, divided
\* by measurement_window, is strictly above the threshold; otherwise nothing
\* is published.
C20_CalibrationExactlyAboveThreshold ==
    [][(recent_decisions' # recent_decisions /\ last'.output.decision # "raised")
       => LET all == AppendedDecisions(history')
              window == MostRecent(all, measurement_window)
              due == /\ Len(all) >= MinimumSample
                     /\ Halts(window) * 100 > halt_threshold_percent * measurement_window
          IN  IF due
              THEN /\ Len(calibration') = Len(calibration) + 1
                   /\ calibration'[Len(calibration')].halt_rate
                         = <<Halts(window), measurement_window>>
                   /\ calibration'[Len(calibration')].threshold = halt_threshold_percent
              ELSE calibration' = calibration]_vars

\* the calls returned so far are the first ones of the run '6 failing, then
\* 4 passing threshold submissions'
SixFailingThenFourPassing ==
    /\ pending = <<>>
    /\ Len(history) <= 10
    /\ \A i \in 1..Len(history) :
          /\ history[i].threshold
          /\ history[i].failing <=> i <= 6

\* C21: with a window of 10 and threshold 0.5, in the run of 6 failing and
\* then 4 passing threshold submissions no calibration message is published
\* before the 6th decision, one is published right after it, and no other
\* until the end of the run.
C21_OneCalibrationAfterSixth ==
    (measurement_window = DefaultWindow /\ halt_threshold_percent = 50
        /\ SixFailingThenFourPassing)
    => Len(calibration) = (IF Len(history) >= 6 THEN 1 ELSE 0)

\* C22: the decision a call returns for a threshold submission is the one the
\* veto pipeline and the repair counter determine, whether or not the monitor
\* publishes a calibration message and whether or not that publish succeeds;
\* the monitor leaves max_repair_cycles and the repair counter as they were.
C22_MonitorIsAdvisory ==
    [][Len(history') > Len(history)
       => /\ last'.output.decision =
                (IF VetoPipeline(last'.input).result.passed THEN "approve"
                 ELSE IF current_repair_cycle' >= max_repair_cycles' THEN "escalate"
                 ELSE "halt")
          /\ max_repair_cycles' = max_repair_cycles
          /\ current_repair_cycle' = current_repair_cycle]_vars

-----------------------------------------------------------------------------
(* Claims: request() (checked under SpecRequest) *)

Occurs(trace, op) == \E i \in 1..Len(trace) : trace[i] = op


\* decodable replies published on the response channel of call c after its
\* request was published and before its deadline
RepliesInTime(c) ==
    {r \in channel_replies[c] : r.data[1] = "response" /\ r.at < req_deadline[c]}

\* C7: within one request() call the subscription to the reply topic is
\* established before the request envelope is published.
C7_SubscribeBeforePublish ==
    \A c \in Calls : \A i \in 1..Len(req_trace[c]) :
        req_trace[c][i] = "publish"
        => \E j \in 1..(i-1) : req_trace[c][j] = "subscribe"

\* C8: when request() has returned: if a reply was published on its reply
\* topic after the request was published and before the deadline, the value
\* returned is such a reply; None is returned only when the deadline has
\* elapsed and no reply was published on its reply topic before it.
C8_ReplyInTimeIsReturned ==
    \A c \in Calls :
        req_pc[c] = "returned"
        => /\ RepliesInTime(c) # {}
                => req_result[c] \in {r.data : r \in RepliesInTime(c)}
           /\ req_result[c] = None
                => now >= req_deadline[c] /\ RepliesInTime(c) = {}

\* C9: a request() call that ended by timing out has returned the value None
\* (nothing was raised) and is no longer subscribed; a call that ended by
\* returning a reply is no longer subscribed.
C9_UnsubscribedAfterReplyOrTimeout ==
    \A c \in Calls :
        /\ (Occurs(req_trace[c], "timeout") /\ req_pc[c] # "timed_out")
              => /\ req_pc[c] = "returned"
                 /\ req_result[c] = None
                 /\ ~subscribed[c]
        /\ (req_pc[c] = "returned" /\ ~Occurs(req_trace[c], "timeout"))
              => /\ req_result[c][1] = "response"
                 /\ ~subscribed[c]

C9_Witness ==
    \E c, d \in Calls :
        /\ req_pc[c] = "returned" /\ req_result[c] = None
        /\ Occurs(req_trace[c], "timeout")
        /\ req_pc[d] = "returned" /\ req_result[d][1] = "response"

\* C10: a request() call cancelled while it waits for a reply is no longer
\* subscribed to its reply topic.
C10_CancelUnsubscribes ==
    \A c \in Calls : req_pc[c] = "cancelled" => ~subscribed[c]

\* C11: when request() reads a reply whose payload cannot be decoded it does
\* not raise; it goes on to return None with the reply-topic subscription
\* removed.
C11_MalformedReplyIsNoAnswer ==
    [][\A c \in Calls :
          (/\ req_pc[c] = "listening"
           /\ inbox[c] # <<>>
           /\ Head(inbox[c])[1] = "malformed"
           /\ inbox'[c] = Tail(inbox[c]))
          => /\ req_pc'[c] # "raised"
             /\ req_pc'[c] = "returned" => (req_result'[c] = None /\ ~subscribed'[c])]_vars

\* a request() call between the publication of its request and its end
Outstanding(c) == req_pc[c] \in {"published", "listening", "unsubscribing", "timed_out"}

\* C12: two request() calls outstanding at the same time have different
\* request ids and different reply topics, also when both were issued at the
\* same clock reading; a call is completed only by the reply to its own
\* request.
C12_DistinctCorrelation ==
    /\ \A c, d \in Calls :
          (c # d /\ Outstanding(c) /\ Outstanding(d))
          => /\ RequestId(Sender, Target, req_id[c]) # RequestId(Sender, Target, req_id[d])
             /\ MyResponseChannel(c) # MyResponseChannel(d)
    /\ \A c \in Calls :
          (req_pc[c] = "returned" /\ req_result[c] # None)
          => req_result[c] = <<"response", c>>

-----------------------------------------------------------------------------
(* Claims: process() (checked under SpecProcess) *)

\* ids of the episodic rows of a given type related to a given input record
RelatedRows(event_type, event_id) ==
    {i \in 1..Len(episodic_memory) :
        /\ episodic_memory[i].event_type = event_type
        /\ episodic_memory[i].related_event_id = event_id}

Ops(trace) == [i \in 1..Len(trace) |-> trace[i].op]

\* C13: a process() call made while the subsystem is not active (never
\* initialized, or shut down) raises 'not active'; no audit record is
\* persisted by it and the subsystem logic is not invoked.
C13_NotActiveRejected ==
    [][\A p \in Procs :
          (proc_pc[p] = "idle" /\ proc_pc'[p] # "idle" /\ ~active)
          => /\ proc_pc'[p] = "raised"
             /\ proc_result'[p] = NotActiveError
             /\ episodic_memory' = episodic_memory
             /\ constitutional_violations' = constitutional_violations
             /\ proc_trace'[p] = <<>>]_vars

C13_Witness ==
    \E p, q \in Procs :
        /\ proc_pc[q] = "returned"
        /\ ~active
        /\ proc_pc[p] = "raised"
        /\ proc_result[p] = NotActiveError
        /\ Len(episodic_memory) = 2

\* C14: a process() call that returned has, in this order, persisted the
\* 'input_received' record and obtained its id, run the subsystem logic,
\* evaluated the post-condition, persisted an 'output_generated' record
\* related to the input record's id, and returned; the value returned is the
\* output of the logic.
C14_SuccessOrder ==
    \A p \in Procs :
        proc_pc[p] = "returned"
        => LET t == proc_trace[p]
           IN  /\ Ops(t) = <<"write_episodic", "_process_input", "_check_constraints",
                             "write_episodic", "return">>
               /\ t[1].id = proc_event_id[p]
               /\ episodic_memory[t[1].id].event_type = "input_received"
               /\ episodic_memory[t[1].id].context.input = proc_input[p]
               /\ episodic_memory[t[4].id].event_type = "output_generated"
               /\ episodic_memory[t[4].id].related_event_id = proc_event_id[p]
               /\ episodic_memory[t[4].id].context.output = process_input(proc_input[p]).value
               /\ proc_result[p] = process_input(proc_input[p]).value

C14_Witness ==
    \E p \in Procs : proc_pc[p] = "returned" /\ proc_result[p] = <<"output", "task">>

\* C15: when the subsystem logic raised, process() has persisted one
\* 'processing_error' record related to the input record's id, has written no
\* 'output_generated' record, and has raised the fault the logic raised.
C15_LogicFaultReraised ==
    \A p \in Procs :
        (proc_pc[p] = "raised" /\ proc_result[p] # NotActiveError
            /\ process_input(proc_input[p]).raised)
        => /\ Cardinality(RelatedRows("processing_error", proc_event_id[p])) = 1
           /\ \A i \in RelatedRows("processing_error", proc_event_id[p]) :
                 episodic_memory[i].context.error = process_input(proc_input[p]).value
           /\ RelatedRows("output_generated", proc_event_id[p]) = {}
           /\ proc_result[p] = process_input(proc_input[p]).value

C15_Witness ==
    \E p \in Procs :
        /\ proc_pc[p] = "raised"
        /\ proc_input[p] = "no_task"
        /\ proc_result[p] = <<"KeyError", "task">>

\* the output of the logic for this input is one the post-condition rejects
Rejected(input) ==
    /\ ~process_input(input).raised
    /\ ~check_constraints(process_input(input).value)

\* C16: when the post-condition rejects the output, process() never returns
\* it; the call ends by raising the constraint-violation fault, having
\* persisted exactly one violation record of type 'constraint_violation' and
\* severity 'major' holding the input and the output, and no
\* 'output_generated' record.
C16_RejectedOutputIsFatal ==
    \A p \in Procs :
        (proc_pc[p] # "idle" /\ proc_result[p] # NotActiveError /\ Rejected(proc_input[p]))
        => /\ proc_pc[p] # "returned"
           /\ RelatedRows("output_generated", proc_event_id[p]) = {}
           /\ proc_pc[p] = "raised"
              => /\ proc_result[p] = ConstraintViolationError
                 /\ LET logged == {i \in 1..Len(proc_trace[p]) :
                                      proc_trace[p][i].op = "_log_violation"}
                    IN  /\ Cardinality(logged) = 1
                        /\ \A i \in logged :
                              constitutional_violations[proc_trace[p][i].id] =
                                 [violation_type |-> "constraint_violation",
                                  severity |-> "major",
                                  context |-> [input |-> proc_input[p],
                                               output |-> process_input(proc_input[p]).value]]

C16_Witness ==
    \E p \in Procs :
        /\ proc_pc[p] = "raised"
        /\ proc_input[p] = "self_routing"
        /\ proc_result[p] = ConstraintViolationError
        /\ Len(constitutional_violations) = 1

\* C17: two process() calls with the same input on a pure logic return the
\* same output; each has its own input record and its own output record, and
\* each output record is related to the input record of its own call.
C17_TwoCallsIndependentRecords ==
    \A p, q \in Procs :
        (p # q /\ proc_pc[p] = "returned" /\ proc_pc[q] = "returned"
            /\ proc_input[p] = proc_input[q])
        => /\ proc_result[p] = proc_result[q]
           /\ proc_event_id[p] # proc_event_id[q]
           /\ episodic_memory[proc_event_id[p]].event_type = "input_received"
           /\ episodic_memory[proc_event_id[q]].event_type = "input_received"
           /\ Cardinality(RelatedRows("output_generated", proc_event_id[p])) = 1
           /\ Cardinality(RelatedRows("output_generated", proc_event_id[q])) = 1
           /\ RelatedRows("output_generated", proc_event_id[p])
                 \cap RelatedRows("output_generated", proc_event_id[q]) = {}

C17_Witness ==
    /\ proc_pc = [p \in Procs |-> "returned"]
    /\ proc_input = [p \in Procs |-> "task"]
    /\ Len(episodic_memory) = 4

-----------------------------------------------------------------------------
(* Claims: concurrent adjudicator calls (checked under SpecConcurrent) *)

\* C34: the append of a decision to recent_decisions and the rate computed
\* after it are one step with respect to the other calls of the instance:
\* the window a call leaves is the window it found plus its own decision
\* (less what the trim dropped), the rate is computed on that window, and a
\* calibration message it publishes reports that window's rate.
C34_AppendAndRateAreAtomic ==
    [][recent_decisions' # recent_decisions
       => LET own == history'[Len(history')].resolved
              appended == Append(recent_decisions, [decision |-> own])
              n == Len(recent_decisions')
          IN  /\ Len(history') = Len(history) + 1
              /\ n >= 1 /\ n <= Len(appended)
              /\ \A i \in 1..n :
                    recent_decisions'[i].decision
                       = appended[Len(appended) - n + i].decision
              /\ AntiParalysisTriggered(appended) => reflective_log' # reflective_log
              /\ calibration' # calibration
                    => calibration'[Len(calibration')].halt_rate
                          = <<halt_count(recent_decisions'), n>>]_vars

C34_Witness ==
    /\ calibration # <<>>
    /\ Len(history) = 10
    /\ history[9].repair_cycle = 2
    /\ history[10].repair_cycle = 2
    /\ Len(halt_events) = 2

\* C35: when failing threshold submissions are processed concurrently by one
\* instance, interleaving at the await of the halt-event INSERT, the returned
\* decisions carry distinct repair_cycle values, each equal to the
\* repair_cycle_count of the halt event whose id the decision carries, and
\* halt or escalate is chosen on that same value.
C35_ConcurrentFailuresKeepTheirCycle ==
    /\ \A i, j \in 1..Len(history) :
          (i < j /\ history[i].failing /\ history[j].failing)
             => history[i].repair_cycle # history[j].repair_cycle
    /\ last.output.decision \in {"halt", "escalate"}
          => LET count == halt_events[last.output.halt_event_id].repair_cycle_count
             IN  /\ last.output.repair_cycle = count
                 /\ last.output.decision = "escalate" <=> count >= max_repair_cycles

-----------------------------------------------------------------------------
(* Claims about Chorus.process_request, checked under SpecChorus *)

Times(agent) == Cardinality({i \in DOMAIN invocations : invocations[i] = agent})

Invoked(agent) == agent \in SeqRange(invocations)

Returned == ch_result.status = "returned"

\* C25: on every process_request path (inquiry, creation, execution, with or
\* without consensus) the first subsystem invoked is the interpreter: no
\* other subsystem is invoked before it.
C25_InterpreterFirst ==
    invocations # <<>> => invocations[1] = "interpreter"

C25_Witness ==
    /\ Returned
    /\ ch_mode = "execution"
    /\ ch_request.require_consensus
    /\ invocations = <<"interpreter", "executor", "sentinel", "strategist", "ledger", "mirror">>

\* C26: every process_request in which the interpreter was invoked and
\* returned ends with exactly one mirror call, made after all other subsystem
\* calls of the request, whatever the other subsystems returned or raised,
\* and the result it returns carries that reflection.
C26_EveryRequestClosesWithMirror ==
    (/\ ch_pc = "done"
     /\ Consulted("interpreter", ch_building.agents_involved)
     /\ ~(ch_result.status = "raised" /\ ch_result.error = "mirror"))
    => /\ invocations[Len(invocations)] = "mirror"
       /\ Times("mirror") = 1
       /\ Returned
       /\ "reflection" \in DOMAIN ch_result.value

\* C27: every process_request in execution mode that returns lists both
\* 'executor' and 'sentinel' in agents_involved and carries a non-null
\* reflection, whatever the adjudicator decided about the action.
C27_ExecutionNamesExecutorAndSentinel ==
    (Returned /\ ch_mode = "execution")
    => /\ ex_decision \in {"approve", "halt", "escalate"}
       /\ Consulted("executor", ch_result.value.agents_involved)
       /\ Consulted("sentinel", ch_result.value.agents_involved)
       /\ "reflection" \in DOMAIN ch_result.value
       /\ DOMAIN ch_result.value.reflection # {}

C27_Witness ==
    /\ Returned
    /\ ch_mode = "execution"
    /\ ch_request.mode = "auto"
    /\ ex_result.status = "failure"

\* C28: in creation mode the strategist is invoked on every request,
\* whatever target the interpreter named; the artisan is invoked exactly when
\* the input mentions 'mythos' or 'worldbuild' or the routing target is
\* artisan; the ledger is invoked exactly when consensus is requested or the
\* input mentions 'risk'.
C28_CreationConsults ==
    (Returned /\ ch_mode = "creation")
    => /\ Invoked("strategist")
       /\ Invoked("artisan") <=>
             ("mythos" \in ch_request.keywords \/ "worldbuild" \in ch_request.keywords
              \/ ch_target = "artisan")
       /\ Invoked("ledger") <=>
             (ch_request.require_consensus \/ "risk" \in ch_request.keywords)

\* C29: the consensus step invokes only subsystems not already consulted, so
\* within one process_request no subsystem is invoked more than once; the
\* result has a 'consensus' entry exactly when consensus was requested, and
\* its threshold_met is true exactly when consensus_score is at least 0.66.
C29_ConsensusAsksOnlyTheUnconsulted ==
    /\ \A agent \in SeqRange(invocations) : Times(agent) = 1
    /\ ch_pc \in {"consensus_strategist", "consensus_ledger"}
          => ~Consulted(IF ch_pc = "consensus_strategist" THEN "strategist" ELSE "ledger",
                        ch_building.agents_involved)
    /\ Returned
          => /\ ("consensus" \in DOMAIN ch_result.value) <=> ch_request.require_consensus
             /\ "consensus" \in DOMAIN ch_result.value
                   => (ch_result.value.consensus.threshold_met
                         <=> ch_result.value.consensus.consensus_score
                                >= ConsensusThresholdPercent)

C29_Witness ==
    /\ Returned
    /\ ch_mode = "creation"
    /\ ch_request.require_consensus
    /\ Consulted("strategist", ch_result.value.agents_involved)
    /\ ch_result.value.consensus.additional_perspectives = <<>>

-----------------------------------------------------------------------------
(* Claims about ExecutorAgent, checked under SpecExecutor *)

RowsOfCall == {i \in DOMAIN ex_episodic : i > ex_before.episodic}

\* C30: with skip_approval false the executor runs the action only after the
\* adjudicator returned approve for the task: if the decision is halt or
\* escalate, or the approval round-trip raises, the sandbox is never invoked,
\* no 'task_executed' record is written and execution_history is unchanged,
\* and for a halt or escalate the result status is 'rejected'.
C30_NoExecutionWithoutApproval ==
    (ex_pc # "idle" /\ ~ex_input.skip_approval)
    => /\ Len(sandbox_calls) > ex_before.sandbox => ex_decision = "approve"
       /\ ex_decision \in {"halt", "escalate", "raised"}
             => /\ Len(sandbox_calls) = ex_before.sandbox
                /\ \A i \in RowsOfCall : ex_episodic[i] # "task_executed"
                /\ execution_history = ex_before.history
       /\ ex_decision \in {"halt", "escalate"} => ex_result.status = "rejected"

C30_Witness ==
    /\ ex_pc = "done"
    /\ ~ex_input.skip_approval
    /\ ex_decision = "halt"
    /\ execution_history # <<>>

\* C31: when the adjudicator halts the action of an execution request, the
\* result handed back to the orchestrator carries the halt reason and the
\* fault code; when it escalates, the result carries the escalation target
\* and the halt event id as well.
C31_RejectionCarriesTheDecision ==
    (ex_pc = "done" /\ ex_decision \in {"halt", "escalate"})
    => /\ ex_approval.halt_reason \in SeqRange(ex_result.errors)
       /\ "fault_code" \in DOMAIN ex_result
       /\ ex_result.fault_code = ex_approval.fault_code
       /\ ex_decision = "escalate"
             => /\ "escalation_target" \in DOMAIN ex_result
                /\ "halt_event_id" \in DOMAIN ex_result

\* every executor call so far went through approval and was rejected
OnlyRejections ==
    /\ sandbox_calls = <<>>
    /\ \A i \in DOMAIN ex_episodic : ex_episodic[i] \in {"input_received", "output_generated"}

\* C32: failing tasks submitted to ExecutorAgent.process one after the other
\* (skip_approval false) accumulate repair cycles: the k-th consecutive
\* rejected task is judged with repair_cycle k, and the
\* max_repair_cycles-th one is escalated rather than halted.
C32_RejectionsAccumulateCycles ==
    OnlyRejections
    => /\ \A k \in DOMAIN halt_events : halt_events[k].repair_cycle_count = k
       /\ (ex_pc = "done" /\ ex_decision \in {"halt", "escalate"})
             => /\ ex_approval.repair_cycle = Len(halt_events)
                /\ ex_decision = "escalate" <=> Len(halt_events) >= max_repair_cycles

-----------------------------------------------------------------------------
(* Claims about what Chorus tells and records, checked under SpecChorus *)

\* C33: while the orchestrator handles a request in mode M, every subsystem
\* it invokes has current mode M during its process() call, and the audit
\* rows that call persists carry mode M.
C33_SubsystemsSeeTheRequestMode ==
    \A i \in DOMAIN modes_seen : modes_seen[i] = ch_mode

\* C37: in the result of every process_request, agents_involved lists exactly
\* the subsystems whose process() was invoked for the request before the
\* reflection call, those consulted only in the consensus step included.
C37_AgentsInvolvedIsWhoWasInvoked ==
    Returned
    => SeqRange(ch_result.value.agents_involved) = SeqRange(invocations) \ {"mirror"}

-----------------------------------------------------------------------------
(* Claims about the Chorus lifecycle, checked under SpecLifecycle *)

LastCall == lifecycle'[Len(lifecycle')]

\* C38: process_request raises 'not initialized' and invokes no subsystem
\* unless initialize() has completed and shutdown() has not been called
\* since; initialize() on an initialized Chorus changes nothing; when an
\* agent fails to initialize, initialize() raises and initialized stays
\* False; shutdown() tries every registered agent and leaves the registry
\* empty and initialized False.
C38_ChorusLifecycle ==
    [][/\ (ch_pc = "idle" /\ ch_pc' # "idle")
          => IF \E i \in DOMAIN lifecycle :
                   /\ lifecycle[i].op = "initialize"
                   /\ lifecycle[i].outcome \in {"returned", "already"}
                   /\ \A j \in DOMAIN lifecycle : j > i => lifecycle[j].op # "shutdown"
             THEN ch_pc' = "interpreter"
             ELSE /\ ch_result' = [status |-> "raised", error |-> "RuntimeError"]
                  /\ invocations' = <<>>
       /\ Len(lifecycle') > Len(lifecycle)
          => /\ (LastCall.op = "initialize" /\ initialized)
                   => registry' = registry /\ initialized'
             /\ (LastCall.op = "initialize" /\ LastCall.outcome = "raised")
                   => ~initialized'
             /\ LastCall.op = "shutdown"
                   => /\ shutdown_attempts' = registry
                      /\ registry' = {}
                      /\ ~initialized']_vars

====
